---- MODULE Spec2Model ----
(***************************************************************************)
(* xai-mcp-server: the CallTool dispatcher, the five tool handlers, the    *)
(* XAIClient request layer and the video polling loop.                     *)
(*                                                                         *)
(* Conventions.  An optional field is a set with at most one element: {}   *)
(* is "undefined / key absent", {v} is the value v.  Fractional numbers    *)
(* (temperature, top_p, penalties) are counted in tenths.  A message text  *)
(* is a sequence of string tokens; a number interpolated into a text is    *)
(* rendered as its decimal digits, one token per digit.  One action is one *)
(* synchronous run of JavaScript between two awaits.                       *)
(***************************************************************************)
EXTENDS Integers, Sequences, FiniteSets, TLC

VARIABLES proc, envKey, clientInstance, call

vars == <<proc, envKey, clientInstance, call>>

\* ------------------------------------------------------------------ bounds

\* Call slots of the model (calls that can exist side by side).
MaxCalls == 2

\* Largest attempt budget handed to pollVideoCompletion by a direct caller.
MaxAttempts == 3

Slots == 1..MaxCalls

\* ------------------------------------------------------- program constants

\* pollVideoCompletion(requestId, maxAttempts = 60, intervalMs = 5000)
DefaultMaxAttempts == 60

\* img.b64_json?.substring(0, 100)
SubstringEnd == 100

\* ----------------------------------------------------------- optional data

Opt(S) == {{}} \cup {{x} : x \in S}

Val(f) == CHOOSE x \in f : TRUE

\* zod .default(d)
Default(f, d) == IF f = {} THEN d ELSE Val(f)

\* JavaScript truthiness of an optional string: undefined and "" are falsy.
Truthy(f) == f # {} /\ Val(f) # ""

\* JavaScript truthiness of `list?.length`.
NonEmptyList(f) == f # {} /\ Len(Val(f)) > 0

\* ------------------------------------------------------------------- texts

DigitChar(d) == <<"0", "1", "2", "3", "4", "5", "6", "7", "8", "9">>[d + 1]

RECURSIVE Digits(_)
\* `${n}` for a non-negative integer n
Digits(n) == IF n < 10 THEN <<DigitChar(n)>>
             ELSE Digits(n \div 10) \o <<DigitChar(n % 10)>>

\* text t contains the text s
Embeds(t, s) ==
  \E i \in 1..(Len(t) - Len(s) + 1) : SubSeq(t, i, i + Len(s) - 1) = s

UnknownToolMsg(name) == <<"Unknown tool: ", name>>

NoKeyMsg == <<"XAI_API_KEY is not configured.">>

TimeoutMsg == <<"Video generation timed out">>

DomainsConflictMsg ==
  <<"Cannot use both allowed_domains and excluded_domains together">>

HandlesConflictMsg ==
  <<"Cannot use both allowed_handles and excluded_handles together">>

\* message of a ZodError: the issues, each naming the path that failed
ZodMsg(issues) == <<"ZodError">> \o issues

IsZodMsg(m) == Len(m) > 1 /\ m[1] = "ZodError"

\* ----------------------------------------------------------------- schemas

Required(f, path) == IF f = {} THEN <<path>> ELSE <<>>

\* faulty variant: the upper limit is compared one too far
InRangeOffByOne(f, lo, hi, path) ==
  IF f # {} /\ (Val(f) < lo \/ Val(f) > hi + 1) THEN <<path>> ELSE <<>>

\* z.number().min(lo).max(hi).optional()
InRange(f, lo, hi, path) ==
  IF f # {} /\ (Val(f) < lo \/ Val(f) > hi) THEN <<path>> ELSE <<>>

\* z.enum(S).optional()
InEnum(f, S, path) == IF f # {} /\ Val(f) \notin S THEN <<path>> ELSE <<>>

\* z.array(z.enum(S)).optional()
ArrayOfEnum(f, S, path) ==
  IF f # {} /\ \E i \in 1..Len(Val(f)) : Val(f)[i] \notin S
  THEN <<path>> ELSE <<>>

\* z.array(z.string()).max(n).optional()
ArrayMax(f, n, path) == IF f # {} /\ Len(Val(f)) > n THEN <<path>> ELSE <<>>

AspectRatios == {"16:9", "4:3", "1:1", "9:16", "3:4", "3:2", "2:3"}

chatSchema(a) ==
     Required(a.message, "message")
  \o InRange(a.temperature, 0, 20, "temperature")
  \o InRange(a.top_p, 0, 10, "top_p")
  \o InRange(a.frequency_penalty, -20, 20, "frequency_penalty")
  \o InRange(a.presence_penalty, -20, 20, "presence_penalty")

generateImageSchema(a) ==
     Required(a.prompt, "prompt")
  \o InRange(a.n, 1, 10, "n")
  \o InEnum(a.aspect_ratio, AspectRatios, "aspect_ratio")
  \o InEnum(a.response_format, {"url", "b64_json"}, "response_format")

visionSchema(a) ==
     Required(a.image_url, "image_url")
  \o InEnum(a.detail, {"low", "high", "auto"}, "detail")

webFiltersSchema(f) ==
  IF f = {} THEN <<>>
  ELSE    ArrayMax(Val(f).allowed_domains, 5, "web_filters.allowed_domains")
       \o ArrayMax(Val(f).excluded_domains, 5, "web_filters.excluded_domains")

xFiltersSchema(f) ==
  IF f = {} THEN <<>>
  ELSE    ArrayMax(Val(f).allowed_handles, 10, "x_filters.allowed_handles")
       \o ArrayMax(Val(f).excluded_handles, 10, "x_filters.excluded_handles")

liveSearchSchema(a) ==
     Required(a.query, "query")
  \o ArrayOfEnum(a.sources, {"web", "x"}, "sources")
  \o webFiltersSchema(a.web_filters)
  \o xFiltersSchema(a.x_filters)
  \o InRange(a.max_results, 1, 20, "max_results")

generateVideoSchema(a) ==
     Required(a.prompt, "prompt")
  \o InRange(a.duration, 1, 15, "duration")
  \o InEnum(a.aspect_ratio, AspectRatios, "aspect_ratio")
  \o InEnum(a.resolution, {"720p", "480p"}, "resolution")

\* ------------------------------------------------------------ tool inputs

ToolNames ==
  {"generate_image", "chat", "analyze_image", "live_search", "generate_video"}

\* names a host may send: the registered ones and one that is not registered
RequestNames == ToolNames \cup {"delete_everything"}

ChatInputs ==
  [message : Opt({"hi"}),
   system_prompt : {{}, {""}, {"be brief"}},
   temperature : {{}, {0}, {20}, {30}},
   top_p : {{}, {5}, {11}},
   frequency_penalty : {{}, {-21}},
   presence_penalty : {{}, {21}},
   max_tokens : {{}, {100}}]

ImageInputs ==
  [prompt : Opt({"a cat"}),
   n : {{}, {10}, {11}, {0}},
   aspect_ratio : {{}, {"16:9"}, {"invalid"}},
   response_format : {{}, {"b64_json"}, {"png"}}]

VisionInputs ==
  [image_url : Opt({"https://img"}),
   prompt : Opt({"what is this"}),
   detail : {{}, {"high"}, {"invalid"}}]

SixNames == <<"a", "b", "c", "d", "e", "f">>

ElevenNames == <<"a", "b", "c", "d", "e", "f", "g", "h", "i", "j", "k">>

WebFilterInputs ==
  {{}}
  \cup {{[allowed_domains |-> al, excluded_domains |-> ex, country |-> {"US"}]} :
          al \in {{}, {<<>>}, {<<"a.com">>}}, ex \in {{}, {<<"b.com">>}}}
  \cup {{[allowed_domains |-> {SixNames}, excluded_domains |-> {}, country |-> {}]}}

XFilterInputs ==
  {{}}
  \cup {{[allowed_handles |-> al, excluded_handles |-> ex, from_date |-> {"2024-01-01"}]} :
          al \in {{}, {<<>>}, {<<"user1">>}}, ex \in {{}, {<<"user2">>}}}
  \cup {{[allowed_handles |-> {ElevenNames}, excluded_handles |-> {}, from_date |-> {}]}}

SearchInputs ==
  [query : Opt({"silver price"}),
   sources : {{}, {<<>>}, {<<"web">>}, {<<"x">>}, {<<"web", "x">>}, {<<"x", "web">>},
              {<<"web", "web">>}, {<<"news">>}},
   web_filters : WebFilterInputs,
   x_filters : XFilterInputs,
   max_results : {{}, {20}, {25}}]

VideoInputs ==
  [prompt : Opt({"a cat playing"}),
   image_url : Opt({"https://img"}),
   video_url : {{}, {""}, {"https://vid"}},
   duration : {{}, {5}, {20}},
   aspect_ratio : {{}, {"21:9"}},
   resolution : {{}, {"1080p"}},
   wait_for_completion : {{}, {TRUE}, {FALSE}}]

\* SearchRequest values a direct caller of client.liveSearch passes
ClientSearchRequests ==
  [query : {<<"silver price">>},
   sources : {{}, {<<>>}, {<<"web">>}, {<<"x">>}, {<<"web", "x">>}, {<<"x", "web">>},
              {<<"x", "x">>}},
   web_filters : {{}, {[allowed_domains |-> {<<"a.com">>}, excluded_domains |-> {},
                        user_location_country |-> {"US"}]}},
   x_filters : {{}, {[allowed_x_handles |-> {<<"user1">>}, excluded_x_handles |-> {},
                      from_date |-> {"2024-01-01"}]}}]

InputsOf(name) ==
  CASE name = "chat" -> ChatInputs
    [] name = "generate_image" -> ImageInputs
    [] name = "analyze_image" -> VisionInputs
    [] name = "live_search" -> SearchInputs
    [] name = "generate_video" -> VideoInputs
    [] OTHER -> {[message |-> {"hi"}]}

\* ------------------------------------------------------- upstream behaviour

\* status codes the upstream answers with
Statuses == {200, 401, 429, 500}

NoJson == [none |-> TRUE]

\* raw bodies of the upstream's error responses
ErrorTexts == {"Unauthorized", "Rate limit exceeded"}

\* what one fetch() can come to: a rejection (network failure) or a Response
FetchResults(Bodies) ==
  {[kind |-> "net", status |-> 0, text |-> "Network error", json |-> NoJson]}
  \cup {[kind |-> "http", status |-> s, text |-> t, json |-> NoJson] :
          s \in {x \in Statuses : x \notin 200..299}, t \in ErrorTexts}
  \cup {[kind |-> "http", status |-> s, text |-> "", json |-> b] :
          s \in {x \in Statuses : x \in 200..299}, b \in Bodies}

ChatBodies ==
  {[model |-> "grok-3", content |-> c, finish_reason |-> {"stop"}] :
     c \in {{}, {"Hello!"}}}

\* an encoded payload of n characters, a text of one token per character
Payload(n) == [j \in 1..n |-> DigitChar(j % 10)]

ImageBodies ==
  {[data |-> <<[url |-> {"https://u1"}, b64_json |-> {},
                revised_prompt |-> {"A sunset"}]>>],
   [data |-> <<[url |-> {"https://u1"}, b64_json |-> {}, revised_prompt |-> {}],
               [url |-> {"https://u2"}, b64_json |-> {}, revised_prompt |-> {}]>>],
   [data |-> <<[url |-> {}, b64_json |-> {Payload(SubstringEnd + 1)},
                revised_prompt |-> {}],
               [url |-> {}, b64_json |-> {Payload(3)},
                revised_prompt |-> {"A cat"}]>>],
   [data |-> <<[url |-> {}, b64_json |-> {Payload(SubstringEnd)},
                revised_prompt |-> {}]>>],
   [data |-> <<>>]}

SearchBodies ==
  {[output |-> {"Silver is trading"}, citations |-> {<<"https://kitco.com">>}],
   [output |-> {}, citations |-> {}]}

CreateBodies == {[request_id |-> r] : r \in {"video-123", "video-456"}}

StatusBody(st, url, dur, err) ==
  [status |-> st, url |-> url, duration |-> dur, error |-> err]

\* VideoStatusResponse values the status endpoint answers with
StatusBodies ==
  {StatusBody({"processing"}, {}, {}, {}),
   StatusBody({"pending"}, {}, {}, {}),
   StatusBody({}, {}, {}, {}),
   StatusBody({}, {""}, {}, {}),
   StatusBody({"completed"}, {"https://v.mp4"}, {5}, {}),
   StatusBody({"completed"}, {}, {}, {}),
   StatusBody({}, {"https://v.mp4"}, {5}, {}),
   StatusBody({"processing"}, {"https://v.mp4"}, {}, {}),
   StatusBody({"failed"}, {}, {}, {"Content policy violation"}),
   StatusBody({"failed"}, {}, {}, {}),
   StatusBody({"failed"}, {}, {}, {""}),
   StatusBody({"failed"}, {"https://v.mp4"}, {}, {"Content policy violation"})}

\* ------------------------------------------------------------ call records

Idle ==
  [pc |-> "idle", kind |-> "none", name |-> "", args |-> NoJson,
   i |-> 0, max |-> 0, rid |-> {}, sent |-> <<>>, http |-> 0,
   polls |-> 0, polledIds |-> {}, waits |-> 0, nonTerm |-> 0,
   badStatus |-> {}, bad |-> {}, net |-> {}, got |-> {}, jobId |-> {}, last |-> {}, outcome |-> {}, results |-> <<>>,
   key |-> {}, cancelled |-> FALSE, pollAfterCancel |-> FALSE, prevFailed |-> FALSE]

InFlight(k) == k.pc \notin {"idle", "done"}

Thrown(msg) == [threw |-> TRUE, msg |-> msg, value |-> NoJson]

Returned(v) == [threw |-> FALSE, msg |-> <<>>, value |-> v]

\* ---------------------------------------------------------- upstream client

\* Response.ok as fetch computes it
Ok(status) == status \in 200..299

\* faulty variant: the error text leaves the status code out
requestNoStatus(r) ==
  IF r.kind = "net" THEN Thrown(<<r.text>>)
  ELSE IF ~Ok(r.status) THEN Thrown(<<"xAI API error: ", r.text>>)
       ELSE Returned(r.json)

\* faulty variant: a 429 answer is reported as a rate-limit notice of its own
requestSpecial429(r) ==
  IF r.kind = "net" THEN Thrown(<<r.text>>)
  ELSE IF r.status = 429 THEN Thrown(<<"Rate limited, retry later">>)
  ELSE IF ~Ok(r.status)
       THEN Thrown(<<"xAI API error (">> \o Digits(r.status) \o <<"): ", r.text>>)
       ELSE Returned(r.json)

\* XAIClient.request: a rejected fetch propagates, a non-ok Response throws
\* `xAI API error (${response.status}): ${error}`, an ok one gives its JSON
request(r) ==
  IF r.kind = "net" THEN Thrown(<<r.text>>)
  ELSE IF ~Ok(r.status)
       THEN Thrown(<<"xAI API error (">> \o Digits(r.status) \o <<"): ", r.text>>)
       ELSE Returned(r.json)

\* faulty variant: the instance is rebuilt whenever the environment has a key
getXAIClientRereadsEnv(inst, env) ==
  IF env # {} THEN [threw |-> FALSE, inst |-> {[apiKey |-> Val(env)]}]
  ELSE IF inst # {} THEN [threw |-> FALSE, inst |-> inst]
       ELSE [threw |-> TRUE, inst |-> inst]

\* getXAIClient: the instance it returns, and whether it throws instead
getXAIClient(inst, env) ==
  IF inst # {} THEN [threw |-> FALSE, inst |-> inst]
  ELSE IF env = {} THEN [threw |-> TRUE, inst |-> inst]
       ELSE [threw |-> FALSE, inst |-> {[apiKey |-> Val(env)]}]

\* ------------------------------------------------------------- dispatcher

\* faulty variant: the catch branch forgets the isError flag
CallToolResultNoFlag(o) ==
  IF o.threw
  THEN [isError |-> FALSE, text |-> [success |-> FALSE, error |-> o.msg]]
  ELSE [isError |-> FALSE, text |-> o.value]

\* what the CallTool request handler returns for its handler's outcome
CallToolResult(o) ==
  IF o.threw
  THEN [isError |-> TRUE, text |-> [success |-> FALSE, error |-> o.msg]]
  ELSE [isError |-> FALSE, text |-> o.value]

\* faulty variant: a thrown error is not caught: the call ends without a result
SettleRethrow(k, o) ==
  [k EXCEPT !.pc = "done", !.outcome = {o},
            !.results = IF k.kind = "tool" /\ ~o.threw
                        THEN Append(@, CallToolResult(o)) ELSE @]

\* the call ends with outcome o; a tool call's outcome goes through the
\* dispatcher's try/catch and is returned to the transport
Settle(k, o) ==
  [k EXCEPT !.pc = "done", !.outcome = {o},
            !.results = IF k.kind = "tool" THEN Append(@, CallToolResult(o)) ELSE @]

\* one fetch of a non-polling endpoint is issued and awaited
Fetch(k, stage, endpoint, body) ==
  [k EXCEPT !.pc = stage, !.http = @ + 1,
            !.sent = Append(@, [endpoint |-> endpoint, body |-> body])]

\* ------------------------------------------------------------------- chat

\* faulty variant: the system message is pushed after the user message
chatMessagesUserFirst(a) ==
  <<[role |-> "user", content |-> Val(a.message)]>>
  \o (IF Truthy(a.system_prompt)
      THEN <<[role |-> "system", content |-> Val(a.system_prompt)]>> ELSE <<>>)

chatMessages(a) ==
  (IF Truthy(a.system_prompt)
   THEN <<[role |-> "system", content |-> Val(a.system_prompt)]>> ELSE <<>>)
  \o <<[role |-> "user", content |-> Val(a.message)]>>

handleChat(k, a) ==
  IF chatSchema(a) # <<>> THEN Settle(k, Thrown(ZodMsg(chatSchema(a))))
  ELSE Fetch(k, "chat", "/chat/completions",
             [model |-> "grok-3", messages |-> chatMessages(a),
              temperature |-> Default(a.temperature, 7),
              max_tokens |-> a.max_tokens, top_p |-> a.top_p,
              frequency_penalty |-> a.frequency_penalty,
              presence_penalty |-> a.presence_penalty])

chatDone(k, r) ==
  IF request(r).threw THEN Settle(k, request(r))
  ELSE LET response == request(r).value IN
       Settle(k, Returned([success |-> TRUE, model |-> response.model,
                           response |-> Default(response.content, "No response"),
                           finish_reason |-> response.finish_reason]))

\* --------------------------------------------------------- generate_image

handleGenerateImage(k, a) ==
  IF generateImageSchema(a) # <<>>
  THEN Settle(k, Thrown(ZodMsg(generateImageSchema(a))))
  ELSE Fetch(k, "image", "/images/generations",
             [model |-> "grok-2-image-1212", prompt |-> Val(a.prompt),
              n |-> Default(a.n, 1),
              response_format |-> Default(a.response_format, "url"),
              aspect_ratio |-> a.aspect_ratio])

\* String.prototype.substring(0, end)
substring(t, end) == SubSeq(t, 1, IF Len(t) < end THEN Len(t) ELSE end)

\* `${img.b64_json?.substring(0, 100) ?? ""}...`
truncated(b64_json) ==
  (IF b64_json = {} THEN <<>> ELSE substring(Val(b64_json), SubstringEnd))
  \o <<"...">>

TruncationNote ==
  "Base64 data truncated for display. Full data available in raw response."

\* faulty variant: the encoded payload is passed on whole
imageDoneWholePayload(k, r) ==
  IF request(r).threw THEN Settle(k, request(r))
  ELSE LET data == request(r).value.data IN
       IF Default(k.args.response_format, "url") = "b64_json"
       THEN Settle(k, Returned([success |-> TRUE,
                                images |-> [j \in 1..Len(data) |->
                                              [index |-> j,
                                               base64 |-> Default(data[j].b64_json, <<>>)
                                                          \o <<"...">>,
                                               revised_prompt |-> data[j].revised_prompt]],
                                count |-> Len(data), note |-> TruncationNote]))
       ELSE Settle(k, Returned([success |-> TRUE,
                                images |-> [j \in 1..Len(data) |->
                                              [index |-> j, url |-> data[j].url,
                                               revised_prompt |-> data[j].revised_prompt]],
                                count |-> Len(data)]))

\* the continuation of handleGenerateImage after the generateImage request
imageDone(k, r) ==
  IF request(r).threw THEN Settle(k, request(r))
  ELSE LET data == request(r).value.data IN
       IF Default(k.args.response_format, "url") = "b64_json"
       THEN Settle(k, Returned([success |-> TRUE,
                                images |-> [j \in 1..Len(data) |->
                                              [index |-> j,
                                               base64 |-> truncated(data[j].b64_json),
                                               revised_prompt |-> data[j].revised_prompt]],
                                count |-> Len(data), note |-> TruncationNote]))
       ELSE Settle(k, Returned([success |-> TRUE,
                                images |-> [j \in 1..Len(data) |->
                                              [index |-> j, url |-> data[j].url,
                                               revised_prompt |-> data[j].revised_prompt]],
                                count |-> Len(data)]))

\* ---------------------------------------------------------- analyze_image

handleVision(k, a) ==
  IF visionSchema(a) # <<>> THEN Settle(k, Thrown(ZodMsg(visionSchema(a))))
  ELSE Fetch(k, "vision", "/chat/completions",
             [model |-> "grok-2-vision-1212",
              messages |->
                <<[role |-> "user",
                   content |->
                     <<[type |-> "text",
                        text |-> Default(a.prompt, "Describe this image in detail.")],
                       [type |-> "image_url", url |-> Val(a.image_url),
                        detail |-> Default(a.detail, "auto")]>>]>>])

visionDone(k, r) ==
  IF request(r).threw THEN Settle(k, request(r))
  ELSE Settle(k, Returned([success |-> TRUE,
                           analysis |-> Default(request(r).value.content,
                                                "No analysis available"),
                           image_url |-> Val(k.args.image_url)]))

\* ------------------------------------------------------------ live_search

Includes(list, x) == \E j \in 1..Len(list) : list[j] = x

\* faulty variant: one tool per entry of sources, in the order given
searchToolsPerEntry(req) ==
  LET sources == Default(req.sources, <<"web">>)
      tool(x) == IF x = "web" THEN [type |-> "web_search", filters |-> req.web_filters]
                 ELSE [type |-> "x_search", filters |-> req.x_filters]
  IN [j \in 1..Len(sources) |-> tool(sources[j])]

\* XAIClient.liveSearch: the tools array built from the requested sources
searchTools(req) ==
  LET sources == Default(req.sources, <<"web">>) IN
     (IF Includes(sources, "web")
      THEN <<[type |-> "web_search", filters |-> req.web_filters]>> ELSE <<>>)
  \o (IF Includes(sources, "x")
      THEN <<[type |-> "x_search", filters |-> req.x_filters]>> ELSE <<>>)

webFilters(wf) ==
  [allowed_domains |-> wf.allowed_domains,
   excluded_domains |-> wf.excluded_domains,
   user_location_country |-> wf.country]

xFilters(xf) ==
  [allowed_x_handles |-> xf.allowed_handles,
   excluded_x_handles |-> xf.excluded_handles,
   from_date |-> xf.from_date]

augmentedQuery(a) ==
  <<Val(a.query), " (provide up to ">> \o Digits(Default(a.max_results, 10))
  \o <<" relevant results)">>

\* the request handleLiveSearch hands to client.liveSearch
searchRequest(a) ==
  [query |-> augmentedQuery(a),
   sources |-> {Default(a.sources, <<"web">>)},
   web_filters |-> {webFilters(f) : f \in a.web_filters},
   x_filters |-> {xFilters(f) : f \in a.x_filters}]

\* client.liveSearch up to its await: the /responses request is issued
liveSearch(k, req) ==
  Fetch(k, "search", "/responses",
        [model |-> "grok-4-0709", input |-> req.query,
         tools |-> searchTools(req), store |-> FALSE])

\* faulty variant: the domain lists are not compared
handleLiveSearchNoDomainCheck(k, a) ==
  IF liveSearchSchema(a) # <<>>
  THEN Settle(k, Thrown(ZodMsg(liveSearchSchema(a))))
  ELSE IF a.x_filters # {}
          /\ NonEmptyList(Val(a.x_filters).allowed_handles)
          /\ NonEmptyList(Val(a.x_filters).excluded_handles)
  THEN Settle(k, Thrown(HandlesConflictMsg))
  ELSE liveSearch(k, searchRequest(a))

\* faulty variant: the handle lists are not compared
handleLiveSearchNoHandleCheck(k, a) ==
  IF liveSearchSchema(a) # <<>>
  THEN Settle(k, Thrown(ZodMsg(liveSearchSchema(a))))
  ELSE IF a.web_filters # {}
          /\ NonEmptyList(Val(a.web_filters).allowed_domains)
          /\ NonEmptyList(Val(a.web_filters).excluded_domains)
  THEN Settle(k, Thrown(DomainsConflictMsg))
  ELSE liveSearch(k, searchRequest(a))

handleLiveSearch(k, a) ==
  IF liveSearchSchema(a) # <<>>
  THEN Settle(k, Thrown(ZodMsg(liveSearchSchema(a))))
  ELSE IF a.web_filters # {}
          /\ NonEmptyList(Val(a.web_filters).allowed_domains)
          /\ NonEmptyList(Val(a.web_filters).excluded_domains)
  THEN Settle(k, Thrown(DomainsConflictMsg))
  ELSE IF a.x_filters # {}
          /\ NonEmptyList(Val(a.x_filters).allowed_handles)
          /\ NonEmptyList(Val(a.x_filters).excluded_handles)
  THEN Settle(k, Thrown(HandlesConflictMsg))
  ELSE liveSearch(k, searchRequest(a))

searchDone(k, r) ==
  IF request(r).threw THEN Settle(k, request(r))
  ELSE LET response == request(r).value IN
       IF k.kind = "client"
       THEN Settle(k, Returned([content |-> Default(response.output, "No results found"),
                                citations |-> response.citations]))
       ELSE
       Settle(k, Returned([success |-> TRUE, query |-> Val(k.args.query),
                           sources |-> Default(k.args.sources, <<"web">>),
                           content |-> Default(response.output, "No results found"),
                           citations |-> Default(response.citations, <<>>)]))

\* --------------------------------------------------------- generate_video

\* faulty variant: the test is `video_url !== undefined`
isEditWhenSupplied(a) == a.video_url # {}

\* const isEdit = !!validated.video_url
isEdit(a) == Truthy(a.video_url)

operation(a) == IF isEdit(a) THEN "video_edit" ELSE "video_generation"

\* faulty variant: the edit request is built like the generation request
handleGenerateVideoForwardsAll(k, a) ==
  IF generateVideoSchema(a) # <<>>
  THEN Settle(k, Thrown(ZodMsg(generateVideoSchema(a))))
  ELSE IF isEdit(a)
  THEN Fetch(k, "create", "/videos/edits",
             [model |-> "grok-imagine-video", prompt |-> Val(a.prompt),
              video_url |-> a.video_url,
              image_url |-> a.image_url, duration |-> a.duration,
              aspect_ratio |-> Default(a.aspect_ratio, "16:9"),
              resolution |-> Default(a.resolution, "720p")])
  ELSE Fetch(k, "create", "/videos/generations",
             [model |-> "grok-imagine-video", prompt |-> Val(a.prompt),
              image_url |-> a.image_url, duration |-> a.duration,
              aspect_ratio |-> Default(a.aspect_ratio, "16:9"),
              resolution |-> Default(a.resolution, "720p")])

handleGenerateVideo(k, a) ==
  IF generateVideoSchema(a) # <<>>
  THEN Settle(k, Thrown(ZodMsg(generateVideoSchema(a))))
  ELSE IF isEdit(a)
  THEN Fetch(k, "create", "/videos/edits",
             [model |-> "grok-imagine-video", prompt |-> Val(a.prompt),
              video_url |-> a.video_url,
              aspect_ratio |-> Default(a.aspect_ratio, "16:9"),
              resolution |-> Default(a.resolution, "720p")])
  ELSE Fetch(k, "create", "/videos/generations",
             [model |-> "grok-imagine-video", prompt |-> Val(a.prompt),
              image_url |-> a.image_url, duration |-> a.duration,
              aspect_ratio |-> Default(a.aspect_ratio, "16:9"),
              resolution |-> Default(a.resolution, "720p")])

\* faulty variant: the final status is not tested for "failed"
videoResultNoFailedBranch(k, finalStatus) ==
  [success |-> TRUE, status |-> "completed", video_url |-> finalStatus.url,
   duration |-> finalStatus.duration, request_id |-> k.rid,
   operation |-> operation(k.args)]

\* the envelope handleGenerateVideo builds from the final status
videoResult(k, finalStatus) ==
  IF finalStatus.status = {"failed"}
  THEN [success |-> FALSE, status |-> "failed",
        error |-> <<Default(finalStatus.error \ {""}, "Video generation failed")>>,
        request_id |-> k.rid]
  ELSE [success |-> TRUE, status |-> "completed", video_url |-> finalStatus.url,
        duration |-> finalStatus.duration, request_id |-> k.rid,
        operation |-> operation(k.args)]

\* pollVideoCompletion ends with outcome o: a direct caller gets o, the
\* handler lets an error propagate and turns a final status into its envelope
pollEnd(k, o) ==
  IF k.kind = "client" \/ o.threw THEN Settle(k, o)
  ELSE Settle(k, Returned(videoResult(k, o.value)))

\* faulty variant: the request id lives in a field all calls share, so a
\* poll goes to whichever jobs the calls in flight have written there
getVideoStatusSharedId(k) ==
  [k EXCEPT !.pc = "status", !.http = @ + 1, !.polls = @ + 1,
            !.polledIds = @ \cup UNION {call[d].rid : d \in DOMAIN call},
            !.pollAfterCancel = @ \/ k.cancelled]

\* getVideoStatus(requestId): one status poll is issued and awaited
getVideoStatus(k) ==
  [k EXCEPT !.pc = "status", !.http = @ + 1, !.polls = @ + 1,
            !.polledIds = @ \cup k.rid,
            !.pollAfterCancel = @ \/ k.cancelled]

\* faulty variant: the loop test is i <= maxAttempts
pollLoopOffByOne(k) ==
  IF k.i <= k.max THEN getVideoStatus(k) ELSE pollEnd(k, Thrown(TimeoutMsg))

\* for (...; i < maxAttempts; ...): the loop test, then the body's first
\* statement or the throw after the loop
pollLoop(k) ==
  IF k.i < k.max THEN getVideoStatus(k) ELSE pollEnd(k, Thrown(TimeoutMsg))

\* faulty variant: the loop body without the `if (status.url)` test
pollStatusIgnoresUrl(k, r) ==
  IF request(r).threw THEN pollEnd(k, request(r))
  ELSE LET status == request(r).value IN
       IF status.status = {"completed"} \/ status.status = {"failed"}
       THEN pollEnd(k, Returned(status))
       ELSE [k EXCEPT !.pc = "sleep", !.waits = @ + 1]

\* faulty variant: the url is tested before the explicit status
pollStatusUrlFirst(k, r) ==
  IF request(r).threw THEN pollEnd(k, request(r))
  ELSE LET status == request(r).value IN
       IF Truthy(status.url)
       THEN pollEnd(k, Returned([status EXCEPT !.status = {"completed"}]))
       ELSE IF status.status = {"completed"} \/ status.status = {"failed"}
       THEN pollEnd(k, Returned(status))
       ELSE [k EXCEPT !.pc = "sleep", !.waits = @ + 1]

\* faulty variant: a failed status request counts as one more pending answer
pollStatusSwallowsErrors(k, r) ==
  IF request(r).threw THEN [k EXCEPT !.pc = "sleep", !.waits = @ + 1]
  ELSE LET status == request(r).value IN
       IF status.status = {"completed"} \/ status.status = {"failed"}
       THEN pollEnd(k, Returned(status))
       ELSE IF Truthy(status.url)
       THEN pollEnd(k, Returned([status EXCEPT !.status = {"completed"}]))
       ELSE [k EXCEPT !.pc = "sleep", !.waits = @ + 1]

\* faulty variant: the wait after a pending answer is never resolved
pollStatusWaitNeverResolves(k, r) ==
  IF request(r).threw THEN pollEnd(k, request(r))
  ELSE LET status == request(r).value IN
       IF status.status = {"completed"} \/ status.status = {"failed"}
       THEN pollEnd(k, Returned(status))
       ELSE IF Truthy(status.url)
       THEN pollEnd(k, Returned([status EXCEPT !.status = {"completed"}]))
       ELSE [k EXCEPT !.pc = "stuck", !.waits = @ + 1]

\* the loop body after the status request has settled
pollStatus(k, r) ==
  IF request(r).threw THEN pollEnd(k, request(r))
  ELSE LET status == request(r).value IN
       IF status.status = {"completed"} \/ status.status = {"failed"}
       THEN pollEnd(k, Returned(status))
       ELSE IF Truthy(status.url)
       THEN pollEnd(k, Returned([status EXCEPT !.status = {"completed"}]))
       ELSE [k EXCEPT !.pc = "sleep", !.waits = @ + 1]

\* faulty variant: wait_for_completion is not consulted
createDoneAlwaysPolls(k, r) ==
  IF request(r).threw THEN Settle(k, request(r))
  ELSE pollLoop([k EXCEPT !.rid = {request(r).value.request_id},
                          !.i = 0, !.max = DefaultMaxAttempts])

\* faulty variant: the id of the response is not the one that is kept
createDoneDropsId(k, r) ==
  IF request(r).threw THEN Settle(k, request(r))
  ELSE IF ~Default(k.args.wait_for_completion, TRUE)
       THEN Settle(k, Returned([success |-> TRUE, status |-> "pending",
                                request_id |-> k.rid,
                                operation |-> operation(k.args)]))
       ELSE pollLoop([k EXCEPT !.i = 0, !.max = DefaultMaxAttempts])

\* the continuation of handleGenerateVideo after the job-creation request
createDone(k, r) ==
  IF request(r).threw THEN Settle(k, request(r))
  ELSE LET k1 == [k EXCEPT !.rid = {request(r).value.request_id}] IN
       IF ~Default(k.args.wait_for_completion, TRUE)
       THEN Settle(k1, Returned([success |-> TRUE, status |-> "pending",
                                 request_id |-> k1.rid,
                                 operation |-> operation(k.args)]))
       ELSE pollLoop([k1 EXCEPT !.i = 0, !.max = DefaultMaxAttempts])

\* ---------------------------------------------------------------- routing

\* faulty variant: the default branch returns an empty success instead of throwing
RouteLenient(name, k, a) ==
  CASE name = "generate_image" -> handleGenerateImage(k, a)
    [] name = "chat" -> handleChat(k, a)
    [] name = "analyze_image" -> handleVision(k, a)
    [] name = "live_search" -> handleLiveSearch(k, a)
    [] name = "generate_video" -> handleGenerateVideo(k, a)
    [] OTHER -> Settle(k, Returned([success |-> TRUE]))

\* the switch of the CallTool request handler, entered with a client at hand
Route(name, k, a) ==
  CASE name = "generate_image" -> handleGenerateImage(k, a)
    [] name = "chat" -> handleChat(k, a)
    [] name = "analyze_image" -> handleVision(k, a)
    [] name = "live_search" -> handleLiveSearch(k, a)
    [] name = "generate_video" -> handleGenerateVideo(k, a)
    [] OTHER -> Settle(k, Thrown(UnknownToolMsg(name)))

\* the handler's first statement is getXAIClient(), which can throw
Dispatch(name, k, a, g) ==
  IF name \in ToolNames /\ g.threw THEN Settle(k, Thrown(NoKeyMsg))
  ELSE IF name \in ToolNames
       THEN Route(name, [k EXCEPT !.key = {Val(g.inst).apiKey}], a)
       ELSE Route(name, k, a)

\* ------------------------------------------------ what the upstream is seen
\* to do (kept beside the call, not read by the program)

Non2xx(r) == r.kind = "http" /\ (r.status < 200 \/ r.status > 299)

TerminalBody(b) ==
  b.status = {"completed"} \/ b.status = {"failed"} \/ (b.url # {} /\ b.url # {""})

Observe(k, r) ==
  [k EXCEPT !.badStatus = IF Non2xx(r) THEN @ \cup {r.status} ELSE @,
            !.bad = IF Non2xx(r)
                    THEN @ \cup {[status |-> r.status, text |-> r.text,
                                  http |-> k.http]}
                    ELSE @,
            !.net = IF r.kind = "net"
                    THEN @ \cup {[text |-> r.text, http |-> k.http]}
                    ELSE @]

ObserveImage(k, r) ==
  [Observe(k, r) EXCEPT
     !.got = IF r.kind = "http" /\ ~Non2xx(r) THEN {r.json} ELSE @]

ObserveCreate(k, r) ==
  [Observe(k, r) EXCEPT
     !.jobId = IF r.kind = "http" /\ ~Non2xx(r) THEN {r.json.request_id} ELSE @]

ObserveStatus(k, r) ==
  [Observe(k, r) EXCEPT
     !.nonTerm = IF r.kind = "http" /\ ~Non2xx(r) /\ ~TerminalBody(r.json)
                 THEN @ + 1 ELSE @,
     !.last = IF r.kind = "http" /\ ~Non2xx(r) /\ TerminalBody(r.json)
              THEN {r.json} ELSE {}]

Failed(k) ==
  k.pc = "done" /\ k.kind = "tool" /\ Len(k.results) > 0
  /\ ~k.results[Len(k.results)].text.success

\* ------------------------------------------------------------------ state

Init ==
  /\ proc = "boot"
  /\ envKey \in Opt({"xai-key-1"})
  /\ clientInstance = {}
  /\ call = [c \in Slots |-> Idle]

\* the process has not called process.exit
Alive == proc \notin {"exited", "fatal"}

\* faulty variant: the module builds the server without looking at the key
StartupNoCheck ==
  /\ proc = "boot"
  /\ proc' = "connecting"
  /\ UNCHANGED <<envKey, clientInstance, call>>

\* index.ts, module level: without XAI_API_KEY the process exits; with it
\* the server is built, the two request handlers are registered and main()
\* is called, which awaits server.connect(transport)
Startup ==
  /\ proc = "boot"
  /\ proc' = IF envKey = {} THEN "exited" ELSE "connecting"
  /\ UNCHANGED <<envKey, clientInstance, call>>

\* server.connect(transport) settles: main() goes on and the server serves,
\* or main() rejects and its catch calls process.exit(1)
Connect ==
  /\ proc = "connecting"
  /\ proc' \in {"serving", "fatal"}
  /\ UNCHANGED <<envKey, clientInstance, call>>

\* slot c is the one a new call takes when at most n calls run side by side
Free(c, n) ==
  /\ call[c].pc = "idle"
  /\ \A d \in Slots : d < c => InFlight(call[d])
  /\ Cardinality({d \in Slots : InFlight(call[d])}) < n

Fresh(c, kind, name, a) ==
  [Idle EXCEPT !.kind = kind, !.name = name, !.args = a,
               !.prevFailed = call[c].prevFailed]

\* a CallTool request arrives: the dispatcher and the handler run up to the
\* handler's first await (or to the end, when it throws before one)
Arrive(c, n, name, a) ==
  /\ proc = "serving"
  /\ Free(c, n)
  /\ LET g == getXAIClient(clientInstance, envKey) IN
       /\ clientInstance' = IF name \in ToolNames THEN g.inst ELSE clientInstance
       /\ call' = [call EXCEPT ![c] = Dispatch(name, Fresh(c, "tool", name, a), a, g)]
  /\ UNCHANGED <<proc, envKey>>

\* any request the host can send
CallTool(c, n) ==
  /\ proc = "serving" /\ Free(c, n)
  /\ \E name \in RequestNames : \E a \in InputsOf(name) : Arrive(c, n, name, a)

\* faulty variant: the listing leaves out a tool the switch routes
toolListShort ==
  <<"generate_image", "chat", "analyze_image", "live_search">>

\* the tools of the ListTools answer, in its order
toolList ==
  <<"generate_image", "chat", "analyze_image", "live_search", "generate_video">>

\* a ListTools request arrives and is answered in the same run
ListTools(c, n) ==
  /\ proc = "serving"
  /\ Free(c, n)
  /\ call' = [call EXCEPT ![c] =
                [Fresh(c, "list", "tools/list", NoJson)
                   EXCEPT !.pc = "done",
                          !.outcome = {Returned([tools |-> toolList])}]]
  /\ UNCHANGED <<proc, envKey, clientInstance>>

\* client.liveSearch(request) called directly on a client
SearchDirect(c, n) ==
  /\ Alive
  /\ Free(c, n)
  /\ \E req \in ClientSearchRequests :
       call' = [call EXCEPT ![c] = liveSearch(Fresh(c, "client", "liveSearch", req), req)]
  /\ UNCHANGED <<proc, envKey, clientInstance>>

\* client.pollVideoCompletion(requestId, maxAttempts, intervalMs) called
\* directly on a client
PollDirect(c, n) ==
  /\ Alive
  /\ Free(c, n)
  /\ \E rid \in {"video-123"}, m \in 0..MaxAttempts :
       call' = [call EXCEPT ![c] =
                  pollLoop([Fresh(c, "client", "pollVideoCompletion", NoJson)
                              EXCEPT !.rid = {rid}, !.max = m])]
  /\ UNCHANGED <<proc, envKey, clientInstance>>

ChatRespond(c) ==
  /\ Alive /\ call[c].pc = "chat"
  /\ \E r \in FetchResults(ChatBodies) :
       call' = [call EXCEPT ![c] = chatDone(Observe(call[c], r), r)]
  /\ UNCHANGED <<proc, envKey, clientInstance>>

ImageRespond(c) ==
  /\ Alive /\ call[c].pc = "image"
  /\ \E r \in FetchResults(ImageBodies) :
       call' = [call EXCEPT ![c] = imageDone(ObserveImage(call[c], r), r)]
  /\ UNCHANGED <<proc, envKey, clientInstance>>

VisionRespond(c) ==
  /\ Alive /\ call[c].pc = "vision"
  /\ \E r \in FetchResults(ChatBodies) :
       call' = [call EXCEPT ![c] = visionDone(Observe(call[c], r), r)]
  /\ UNCHANGED <<proc, envKey, clientInstance>>

SearchRespond(c) ==
  /\ Alive /\ call[c].pc = "search"
  /\ \E r \in FetchResults(SearchBodies) :
       call' = [call EXCEPT ![c] = searchDone(Observe(call[c], r), r)]
  /\ UNCHANGED <<proc, envKey, clientInstance>>

\* the job-creation request of call c is answered with one of R
CreateAnswer(c, R) ==
  /\ Alive /\ call[c].pc = "create"
  /\ \E r \in R :
       call' = [call EXCEPT ![c] = createDone(ObserveCreate(call[c], r), r)]
  /\ UNCHANGED <<proc, envKey, clientInstance>>

CreateRespond(c) == CreateAnswer(c, FetchResults(CreateBodies))

\* the status poll of call c is answered with one of R
StatusAnswer(c, R) ==
  /\ Alive /\ call[c].pc = "status"
  /\ \E r \in R :
       call' = [call EXCEPT ![c] = pollStatus(ObserveStatus(call[c], r), r)]
  /\ UNCHANGED <<proc, envKey, clientInstance>>

StatusRespond(c) == StatusAnswer(c, FetchResults(StatusBodies))

\* the setTimeout of the loop body fires: i++ and the loop test
TimerFire(c) ==
  /\ Alive /\ call[c].pc = "sleep"
  /\ call' = [call EXCEPT ![c] = pollLoop([call[c] EXCEPT !.i = @ + 1])]
  /\ UNCHANGED <<proc, envKey, clientInstance>>

\* the host cancels an in-flight tool call; the handler registered in
\* index.ts takes only `request`, so nothing of the call reads this
Cancel(c) ==
  /\ Alive /\ InFlight(call[c]) /\ call[c].kind = "tool"
  /\ ~call[c].cancelled
  /\ call' = [call EXCEPT ![c].cancelled = TRUE]
  /\ UNCHANGED <<proc, envKey, clientInstance>>

\* faulty variant: a call that failed takes the process down with it
ReplyOrCrash(c) ==
  /\ Alive /\ call[c].pc = "done"
  /\ call' = [call EXCEPT ![c] = [Idle EXCEPT !.prevFailed = Failed(call[c])]]
  /\ proc' = IF Failed(call[c]) THEN "fatal" ELSE proc
  /\ UNCHANGED <<envKey, clientInstance>>

\* the settled call leaves the process: its result has gone to the caller
\* and nothing of the call is kept
Reply(c) ==
  /\ Alive /\ call[c].pc = "done"
  /\ call' = [call EXCEPT ![c] = [Idle EXCEPT !.prevFailed = Failed(call[c])]]
  /\ UNCHANGED <<proc, envKey, clientInstance>>

\* process.env.XAI_API_KEY is assigned or deleted by code of the process
SetEnv ==
  /\ Alive
  /\ \E v \in Opt({"xai-key-1", "xai-key-2"}) : v # envKey /\ envKey' = v
  /\ UNCHANGED <<proc, clientInstance, call>>

Step(c, n) ==
  \/ CallTool(c, n)
  \/ ListTools(c, n)
  \/ SearchDirect(c, n)
  \/ PollDirect(c, n)
  \/ ChatRespond(c)
  \/ ImageRespond(c)
  \/ VisionRespond(c)
  \/ SearchRespond(c)
  \/ CreateRespond(c)
  \/ StatusRespond(c)
  \/ TimerFire(c)
  \/ Cancel(c)
  \/ Reply(c)

\* the host sends one call at a time
Next == Startup \/ Connect \/ \E c \in Slots : Step(c, 1)

Spec == Init /\ [][Next]_vars

\* ---- pollVideoCompletion on its own, with an upstream that answers every
\* status request and timers that fire

PollStep(c) ==
  \/ PollDirect(c, 1)
  \/ StatusRespond(c)
  \/ TimerFire(c)
  \/ Reply(c)

NextPoll == \E c \in Slots : PollStep(c)

\* fetch settles (with a response or a rejection) and setTimeout fires
PollFairness ==
  \A c \in Slots : WF_vars(StatusRespond(c)) /\ WF_vars(TimerFire(c))

SpecPoll == Init /\ [][NextPoll]_vars /\ PollFairness

\* ---- two calls side by side

\* the generate_video requests of the two hosts' calls
PairInputs ==
  {a \in VideoInputs :
     /\ a.prompt # {} /\ a.image_url = {} /\ a.duration = {}
     /\ a.aspect_ratio = {} /\ a.resolution = {}
     /\ \/ a.video_url = {} /\ a.wait_for_completion = {}
        \/ a.video_url = {"https://vid"} /\ a.wait_for_completion = {FALSE}}

HttpResult(s, t, b) == [kind |-> "http", status |-> s, text |-> t, json |-> b]

PairCreateResults ==
  {HttpResult(200, "", b) : b \in CreateBodies}
  \cup {HttpResult(500, "Unauthorized", NoJson)}

PairStatusResults ==
  {HttpResult(200, "", StatusBody({"processing"}, {}, {}, {})),
   HttpResult(200, "", StatusBody({"completed"}, {"https://v.mp4"}, {5}, {})),
   HttpResult(200, "", StatusBody({"failed"}, {}, {}, {"Content policy violation"})),
   HttpResult(429, "Rate limit exceeded", NoJson)}

PairStep(c) ==
  \/ \E a \in PairInputs : Arrive(c, 2, "generate_video", a)
  \/ CreateAnswer(c, PairCreateResults)
  \/ StatusAnswer(c, PairStatusResults)
  \/ TimerFire(c)
  \/ Reply(c)

\* up to two generate_video calls are in flight at once
NextPair == Startup \/ Connect \/ \E c \in Slots : PairStep(c)

SpecPair == Init /\ [][NextPair]_vars

\* as Spec, and the environment value changes while the process runs
NextEnv == Next \/ SetEnv

SpecEnv == Init /\ [][NextEnv]_vars

\* ================================================================== claims

\* The constraints the tools declare on their inputs (tool descriptors and
\* the tool surface table), stated field by field.
Missing(f) == f = {}

Outside(f, lo, hi) == f # {} /\ \E v \in f : v < lo \/ v > hi

NotOneOf(f, S) == f # {} /\ f \cap S = {}

TooLong(f, n) == f # {} /\ \E l \in f : Len(l) > n

Violates(name, a) ==
  CASE name = "chat" ->
         \/ Missing(a.message)
         \/ Outside(a.temperature, 0, 20)
         \/ Outside(a.top_p, 0, 10)
         \/ Outside(a.frequency_penalty, -20, 20)
         \/ Outside(a.presence_penalty, -20, 20)
    [] name = "generate_image" ->
         \/ Missing(a.prompt)
         \/ Outside(a.n, 1, 10)
         \/ NotOneOf(a.aspect_ratio, {"16:9", "4:3", "1:1", "9:16", "3:4", "3:2", "2:3"})
         \/ NotOneOf(a.response_format, {"url", "b64_json"})
    [] name = "analyze_image" ->
         \/ Missing(a.image_url)
         \/ NotOneOf(a.detail, {"low", "high", "auto"})
    [] name = "live_search" ->
         \/ Missing(a.query)
         \/ Outside(a.max_results, 1, 20)
         \/ (a.sources # {} /\ \E l \in a.sources : \E j \in 1..Len(l) : l[j] \notin {"web", "x"})
         \/ (a.web_filters # {} /\ \E f \in a.web_filters :
               TooLong(f.allowed_domains, 5) \/ TooLong(f.excluded_domains, 5))
         \/ (a.x_filters # {} /\ \E f \in a.x_filters :
               TooLong(f.allowed_handles, 10) \/ TooLong(f.excluded_handles, 10))
    [] name = "generate_video" ->
         \/ Missing(a.prompt)
         \/ Outside(a.duration, 1, 15)
         \/ NotOneOf(a.aspect_ratio, {"16:9", "4:3", "1:1", "9:16", "3:4", "3:2", "2:3"})
         \/ NotOneOf(a.resolution, {"720p", "480p"})
    [] OTHER -> FALSE

Registered ==
  {"generate_image", "chat", "analyze_image", "live_search", "generate_video"}

ToolCall(k) == k.kind = "tool" /\ k.pc # "idle"

\* the one result of a settled tool call
Result(k) == k.results[1]

FailureEnvelope(msg) ==
  [isError |-> TRUE, text |-> [success |-> FALSE, error |-> msg]]

\* C1: a call of one of the five tools whose input violates a declared
\* constraint ends with a validation error, and no HTTP request is issued
\* during that call.
C1_InvalidInputNeverReachesUpstream ==
  \A c \in Slots :
    LET k == call[c] IN
    (ToolCall(k) /\ k.name \in Registered /\ Violates(k.name, k.args)) =>
      /\ k.pc = "done"
      /\ k.http = 0 /\ k.sent = <<>> /\ k.polls = 0
      /\ Val(k.outcome).threw /\ IsZodMsg(Val(k.outcome).msg)
      /\ ~Result(k).text.success

C1_Witness ==
  \E c \in Slots :
    /\ ToolCall(call[c]) /\ call[c].name = "generate_image"
    /\ call[c].args.n = {11} /\ call[c].args.prompt # {}
    /\ call[c].pc = "done" /\ call[c].http = 0
    /\ IsZodMsg(Val(call[c].outcome).msg)

\* C2: every tool call yields exactly one result, a success envelope or a
\* failure envelope: none while the call runs, one once it has settled,
\* never more.
C2_ExactlyOneResult ==
  \A c \in Slots :
    LET k == call[c] IN
    ToolCall(k) =>
      /\ InFlight(k) => k.results = <<>>
      /\ k.pc = "done" => Len(k.results) = 1 /\ Result(k).text.success \in BOOLEAN
      /\ Len(k.results) <= 1

C2_Witness ==
  \E c \in Slots :
    /\ ToolCall(call[c]) /\ call[c].pc = "done" /\ call[c].name = "generate_video"
    /\ call[c].polls > 1 /\ Len(call[c].results) = 1
    /\ Result(call[c]).text.success

\* C3: an error raised inside a handler is returned as
\* {success:false, error:<its message>} with isError = true, the process
\* keeps running, and the next call can be served.
C3_ErrorsCaughtAtDispatch ==
  \A c \in Slots :
    LET k == call[c] IN
    /\ (ToolCall(k) /\ k.pc = "done" /\ Val(k.outcome).threw) =>
         /\ k.results = <<FailureEnvelope(Val(k.outcome).msg)>>
         /\ proc = "serving"
         /\ ENABLED Reply(c)
    /\ (k.prevFailed /\ k.pc = "idle" /\ c = 1) =>
         proc = "serving" /\ ENABLED CallTool(c, 1)

C3_Witness ==
  \E c \in Slots :
    /\ ToolCall(call[c]) /\ call[c].pc = "done" /\ call[c].prevFailed
    /\ Val(call[c].outcome).threw /\ Val(call[c].outcome).msg = NoKeyMsg
    /\ call[c].results = <<FailureEnvelope(NoKeyMsg)>>

\* C4: a call with a name that is not registered ends with
\* {success:false, error:"Unknown tool: <name>"} and isError = true; no
\* handler and no upstream request runs for it and the process keeps running.
C4_UnknownTool ==
  \A c \in Slots :
    LET k == call[c] IN
    (ToolCall(k) /\ k.name \notin Registered) =>
      /\ k.pc = "done"
      /\ k.results = <<FailureEnvelope(<<"Unknown tool: ", k.name>>)>>
      /\ k.http = 0 /\ k.sent = <<>> /\ k.polls = 0
      /\ proc = "serving"

C4_Witness ==
  \E c \in Slots :
    /\ ToolCall(call[c]) /\ call[c].name = "delete_everything"
    /\ call[c].pc = "done" /\ Result(call[c]).isError

\* the decimal text of the status codes the upstream answers with
StatusText(s) ==
  CASE s = 401 -> <<"4", "0", "1">>
    [] s = 500 -> <<"5", "0", "0">>
    [] s = 429 -> <<"4", "2", "9">>
    [] s = 200 -> <<"2", "0", "0">>

\* C5: whenever the upstream answers a tool call's request with a non-2xx
\* status s, the call's result has success:false and an error message that
\* contains s; the failure is returned, not left unhandled.
C5_UpstreamStatusSurfaces ==
  \A c \in Slots :
    LET k == call[c] IN
    (ToolCall(k) /\ k.badStatus # {}) =>
      /\ k.pc = "done" /\ Len(k.results) = 1
      /\ ~Result(k).text.success /\ Result(k).isError
      /\ \A s \in k.badStatus : Embeds(Result(k).text.error, StatusText(s))
      /\ proc = "serving"

C5_Witness ==
  \E c \in Slots :
    /\ ToolCall(call[c]) /\ call[c].name = "generate_video"
    /\ call[c].badStatus = {500} /\ call[c].polls = 2
    /\ call[c].pc = "done"

\* a call in which pollVideoCompletion has been entered
Polling(k) ==
  \/ k.kind = "client" /\ k.name = "pollVideoCompletion"
  \/ k.kind = "tool" /\ k.pc # "idle" /\ k.jobId # {}
     /\ k.args.wait_for_completion # {FALSE}

Budget(k) == IF k.kind = "client" THEN k.max ELSE 60

ExplicitEnd(b) == b.status = {"completed"} \/ b.status = {"failed"}

\* C6: when the first terminal status response is the k-th, exactly k polls
\* are made and that response is what the loop returns; when none of the
\* first maxAttempts responses is terminal the loop fails with the timeout
\* error after exactly maxAttempts polls; the budget is never exceeded.
C6_PollCountAndTimeout ==
  \A c \in Slots :
    LET k == call[c] IN
    Polling(k) =>
      /\ k.polls <= Budget(k)
      /\ k.nonTerm <= k.polls
      /\ k.last # {} =>
           /\ k.pc = "done"
           /\ k.polls = k.nonTerm + 1
           /\ ~Val(k.outcome).threw
           /\ k.kind = "client" =>
                /\ Val(k.outcome).value.url = Val(k.last).url
                /\ Val(k.outcome).value.duration = Val(k.last).duration
                /\ Val(k.outcome).value.error = Val(k.last).error
                /\ ExplicitEnd(Val(k.last)) => Val(k.outcome).value = Val(k.last)
      /\ k.nonTerm = Budget(k) =>
           /\ k.polls = Budget(k)
           /\ k.pc \in {"sleep", "done"}
           /\ k.pc = "done" =>
                Val(k.outcome).threw
                /\ Val(k.outcome).msg = <<"Video generation timed out">>
      /\ (k.pc = "done" /\ Val(k.outcome).threw
            /\ Val(k.outcome).msg = <<"Video generation timed out">>) =>
           k.nonTerm = Budget(k) /\ k.polls = Budget(k)

\* responses [processing, processing, completed]: three polls, result returned
C6_Witness ==
  \E c \in Slots :
    /\ call[c].kind = "client" /\ call[c].max = 3 /\ call[c].pc = "done"
    /\ call[c].polls = 3 /\ call[c].nonTerm = 2
    /\ call[c].last = {StatusBody({"completed"}, {"https://v.mp4"}, {5}, {})}
    /\ Val(call[c].outcome).value.status = {"completed"}

\* C7: a status response that carries a result URL and no terminal status
\* ends the loop at once and is returned with status "completed", its other
\* fields unchanged.
C7_UrlMeansCompleted ==
  \A c \in Slots :
    LET k == call[c] IN
    (Polling(k) /\ k.last # {} /\ ~ExplicitEnd(Val(k.last))) =>
      /\ k.pc = "done"
      /\ k.polls = k.nonTerm + 1
      /\ ~Val(k.outcome).threw
      /\ k.kind = "client" =>
           Val(k.outcome).value =
             [status |-> {"completed"}, url |-> Val(k.last).url,
              duration |-> Val(k.last).duration, error |-> Val(k.last).error]
      /\ k.kind = "tool" =>
           /\ Result(k).text.success /\ ~Result(k).isError
           /\ Result(k).text.status = "completed"
           /\ Result(k).text.video_url = Val(k.last).url
           /\ Result(k).text.duration = Val(k.last).duration

C7_Witness ==
  \E c \in Slots :
    /\ call[c].kind = "client" /\ call[c].pc = "done" /\ call[c].polls = 2
    /\ call[c].last = {StatusBody({}, {"https://v.mp4"}, {5}, {})}
    /\ Val(call[c].outcome).value.status = {"completed"}
    /\ Val(call[c].outcome).value.url = {"https://v.mp4"}

\* C8: once a generate_video call is cancelled, its polling loop issues no
\* further status poll.
C8_NoPollAfterCancel ==
  \A c \in Slots : ~call[c].pollAfterCancel

\* a generate_video call that passed validation
ValidVideoCall(k) ==
  ToolCall(k) /\ k.name = "generate_video" /\ ~Violates(k.name, k.args)

\* C9 as stated: exactly one job-creation request, to /videos/edits when a
\* video_url is supplied and to /videos/generations when none is.
C9_EndpointByVideoUrlSupplied ==
  \A c \in Slots :
    LET k == call[c] IN
    ValidVideoCall(k) =>
      /\ Len(k.sent) = 1
      /\ k.args.video_url # {} => k.sent[1].endpoint = "/videos/edits"
      /\ k.args.video_url = {} => k.sent[1].endpoint = "/videos/generations"

\* C9 (amended): exactly one job-creation request, to /videos/edits when a
\* non-empty video_url is supplied and to /videos/generations when
\* video_url is absent or the empty string.
C9_EndpointByNonEmptyVideoUrl ==
  \A c \in Slots :
    LET k == call[c] IN
    ValidVideoCall(k) =>
      /\ Len(k.sent) = 1
      /\ k.sent[1].endpoint \in {"/videos/edits", "/videos/generations"}
      /\ k.http = 1 + k.polls
      /\ k.args.video_url \notin {{}, {""}} => k.sent[1].endpoint = "/videos/edits"
      /\ k.args.video_url \in {{}, {""}} => k.sent[1].endpoint = "/videos/generations"

C9_Witness ==
  \E c \in Slots :
    /\ ValidVideoCall(call[c]) /\ call[c].args.video_url = {"https://vid"}
    /\ call[c].pc = "done" /\ call[c].polls = 2
    /\ call[c].sent[1].endpoint = "/videos/edits" /\ Len(call[c].sent) = 1

\* C10: with wait_for_completion = false the call makes no status poll and,
\* once the job-creation request has answered with an id, returns
\* {success:true, status:"pending", request_id:<that id>} at once.
C10_NoWaitReturnsPending ==
  \A c \in Slots :
    LET k == call[c] IN
    (ValidVideoCall(k) /\ k.args.wait_for_completion = {FALSE}) =>
      /\ k.polls = 0 /\ k.waits = 0 /\ k.http = 1
      /\ k.jobId # {} =>
           /\ k.pc = "done"
           /\ Len(k.results) = 1 /\ ~Result(k).isError
           /\ Result(k).text.success
           /\ Result(k).text.status = "pending"
           /\ Result(k).text.request_id = k.jobId

C10_Witness ==
  \E c \in Slots :
    /\ ValidVideoCall(call[c]) /\ call[c].args.wait_for_completion = {FALSE}
    /\ call[c].pc = "done" /\ call[c].jobId = {"video-456"}
    /\ Result(call[c]).text.status = "pending"
    /\ Result(call[c]).text.request_id = {"video-456"}

\* a live_search call
SearchCall(k) == ToolCall(k) /\ k.name = "live_search"

\* the call was turned down: it has ended in a failure result and no request
\* went upstream
Rejected(k) ==
  /\ k.pc = "done" /\ Len(k.results) = 1
  /\ Result(k).isError /\ ~Result(k).text.success
  /\ k.http = 0 /\ k.sent = <<>>

BothGiven(f, g) == f # {} /\ g # {}

BothNonEmpty(f, g) ==
  f # {} /\ g # {} /\ (\A l \in f : Len(l) > 0) /\ (\A l \in g : Len(l) > 0)

SentChat(k) ==
  ToolCall(k) /\ k.name = "chat" /\ ~Violates(k.name, k.args) /\ Len(k.sent) = 1

SystemMessage(t) == [role |-> "system", content |-> t]

UserMessage(t) == [role |-> "user", content |-> t]

\* C13 as stated: with a system prompt given the upstream message list is
\* <<system, user>>; with none given it is <<user>>.
C13_MessagesBySystemPromptGiven ==
  \A c \in Slots :
    LET k == call[c] IN
    SentChat(k) =>
      LET messages == k.sent[1].body.messages IN
      /\ k.args.system_prompt # {} =>
           messages = <<SystemMessage(Val(k.args.system_prompt)),
                        UserMessage(Val(k.args.message))>>
      /\ k.args.system_prompt = {} =>
           messages = <<UserMessage(Val(k.args.message))>>

\* C13 (amended): with a non-empty system prompt the upstream message list
\* has exactly two entries, the system message with the prompt and then the
\* user message with the message, whatever the other optional parameters;
\* with the system prompt absent or empty it is the one user message.
C13_MessagesByNonEmptySystemPrompt ==
  \A c \in Slots :
    LET k == call[c] IN
    SentChat(k) =>
      LET messages == k.sent[1].body.messages IN
      /\ k.args.system_prompt \notin {{}, {""}} =>
           messages = <<SystemMessage(Val(k.args.system_prompt)),
                        UserMessage(Val(k.args.message))>>
      /\ k.args.system_prompt \in {{}, {""}} =>
           messages = <<UserMessage(Val(k.args.message))>>

C13_Witness ==
  \E c \in Slots :
    /\ SentChat(call[c]) /\ call[c].args.system_prompt = {"be brief"}
    /\ call[c].args.temperature = {20} /\ call[c].args.top_p = {5}
    /\ call[c].args.max_tokens = {100}
    /\ call[c].sent[1].body.messages =
         <<SystemMessage("be brief"), UserMessage("hi")>>

\* a request of the host that the process has taken up
Served(k) == k.kind \in {"tool", "list"}

\* C14: when XAI_API_KEY is absent at process start the process exits at the
\* credential check: the transport is never connected and no tool listing
\* and no tool call is ever served.
C14_NoCredentialNoService ==
  envKey = {} =>
    /\ proc \in {"boot", "exited"}
    /\ \A c \in Slots : ~Served(call[c]) /\ ~call[c].prevFailed
    /\ clientInstance = {}

C14_Witness == envKey = {} /\ proc = "exited"

Ended == {"exited", "fatal"}

\* C15 as stated: the only step that ends the process is the startup
\* credential check.
C15_OnlyCredentialCheckEnds ==
  [][(proc \notin Ended /\ proc' \in Ended) => (proc = "boot" /\ envKey = {})]_vars

\* C15 (amended): the process ends only at the startup credential check or
\* when connecting the transport fails in main(); no tool call, no listing
\* and no step of a running server ends it.
C15_OnlyStartupEnds ==
  [][(proc \notin Ended /\ proc' \in Ended) =>
       \/ proc = "boot" /\ envKey = {} /\ proc' = "exited"
       \/ proc = "connecting" /\ proc' = "fatal"]_vars

\* a failed call has been answered and the server is still serving
C15_Witness ==
  /\ proc = "serving"
  /\ \E c \in Slots : call[c].pc = "idle" /\ call[c].prevFailed

\* a call that has entered the upstream client
Started(k) == k.pc # "idle" /\ k.kind \in {"tool", "client"}

\* C16: each endpoint operation of the upstream client issues exactly one
\* HTTP request per invocation; a non-2xx answer makes it fail with an error
\* that carries the status code and the raw body, whatever the code is, and
\* the request is not repeated.
C16_OneRequestNoRetry ==
  \A c \in Slots :
    LET k == call[c] IN
    Started(k) =>
      /\ k.http = Len(k.sent) + k.polls
      /\ k.bad # {} =>
           /\ Cardinality(k.bad) = 1
           /\ \A b \in k.bad :
                /\ k.pc = "done"
                /\ k.http = b.http
                /\ Val(k.outcome).threw
                /\ Val(k.outcome).msg =
                     <<"xAI API error (">> \o StatusText(b.status) \o <<"): ", b.text>>

\* the third status poll of a direct pollVideoCompletion is answered 429
C16_Witness ==
  \E c \in Slots :
    /\ call[c].kind = "client" /\ call[c].name = "pollVideoCompletion"
    /\ call[c].pc = "done" /\ call[c].polls = 3 /\ call[c].http = 3
    /\ call[c].bad = {[status |-> 429, text |-> "Rate limit exceeded", http |-> 3]}
    /\ Val(call[c].outcome).msg =
         <<"xAI API error (", "4", "2", "9", "): ", "Rate limit exceeded">>

C19_FailedJobEnvelope ==
  \A c \in Slots :
    LET k == call[c] IN
    (ToolCall(k) /\ k.name = "generate_video" /\ k.last # {}
       /\ \A b \in k.last : b.status = {"failed"}) =>
      /\ k.pc = "done" /\ Len(k.results) = 1
      /\ \A b \in k.last :
           Result(k).text =
             [success |-> FALSE, status |-> "failed",
              error |-> IF b.error = {} \/ b.error = {""}
                        THEN <<"Video generation failed">>
                        ELSE <<Val(b.error)>>,
              request_id |-> k.jobId]

C19_Witness ==
  \E c \in Slots :
    /\ ToolCall(call[c]) /\ call[c].name = "generate_video" /\ call[c].pc = "done"
    /\ call[c].polls = 2 /\ call[c].jobId = {"video-123"}
    /\ call[c].last = {StatusBody({"failed"}, {}, {}, {"Content policy violation"})}
    /\ Result(call[c]).text.error = <<"Content policy violation">>
    /\ Result(call[c]).text.request_id = {"video-123"}

\* a request that has gone to /responses, with the source selection and the
\* filters it was built from
SearchSent(k) ==
  Started(k) /\ k.name \in {"live_search", "liveSearch"} /\ Len(k.sent) = 1

\* the source selection client.liveSearch was given
Selection(k) ==
  IF k.kind = "client" THEN k.args.sources
  ELSE {IF k.args.sources = {} THEN <<"web">> ELSE Val(k.args.sources)}

HasSource(sel, x) == \E l \in sel : \E j \in 1..Len(l) : l[j] = x

\* the filters client.liveSearch was given
GivenWebFilters(k) ==
  IF k.kind = "client" THEN k.args.web_filters
  ELSE {[allowed_domains |-> f.allowed_domains,
         excluded_domains |-> f.excluded_domains,
         user_location_country |-> f.country] : f \in k.args.web_filters}

GivenXFilters(k) ==
  IF k.kind = "client" THEN k.args.x_filters
  ELSE {[allowed_x_handles |-> f.allowed_handles,
         excluded_x_handles |-> f.excluded_handles,
         from_date |-> f.from_date] : f \in k.args.x_filters}

\* C20: the tool list of the /responses request has a web_search tool
\* exactly when the sources contain "web" and an x_search tool exactly when
\* they contain "x", each at most once and web before x; the web filters
\* sit on the web_search tool only and the X filters on the x_search tool
\* only; with the sources omitted the list is the one web_search tool.
C20_ToolsFollowSources ==
  \A c \in Slots :
    LET k == call[c] IN
    SearchSent(k) =>
      LET tools == k.sent[1].body.tools
          web == {j \in 1..Len(tools) : tools[j].type = "web_search"}
          x == {j \in 1..Len(tools) : tools[j].type = "x_search"}
      IN /\ web \cup x = 1..Len(tools)
         /\ Cardinality(web) <= 1 /\ Cardinality(x) <= 1
         /\ web # {} <=> (Selection(k) = {} \/ HasSource(Selection(k), "web"))
         /\ x # {} <=> HasSource(Selection(k), "x")
         /\ \A i \in web : \A j \in x : i < j
         /\ \A j \in web : tools[j].filters = GivenWebFilters(k)
         /\ \A j \in x : tools[j].filters = GivenXFilters(k)
         /\ Selection(k) = {} =>
              Len(tools) = 1 /\ tools[1].type = "web_search"

\* sources ["x", "web"] with both filters: web_search first, each tool with
\* its own filters
C20_Witness ==
  \E c \in Slots :
    /\ SearchSent(call[c]) /\ call[c].kind = "client"
    /\ call[c].args.sources = {<<"x", "web">>}
    /\ call[c].args.web_filters # {} /\ call[c].args.x_filters # {}
    /\ Len(call[c].sent[1].body.tools) = 2
    /\ call[c].sent[1].body.tools[1] =
         [type |-> "web_search", filters |-> call[c].args.web_filters]
    /\ call[c].sent[1].body.tools[2] =
         [type |-> "x_search", filters |-> call[c].args.x_filters]

\* ---- C17: what a generate_video call does when it runs alone, told from
\* its input and from the answers the upstream gave to its own requests

\* answers the call has received
Answers(k) ==
  (IF k.jobId # {} THEN 1 ELSE 0) + k.nonTerm + Cardinality(k.last)
  + Cardinality(k.bad)

\* requests the call has issued: one per answer, and the one it waits for
AloneRequests(k) == Answers(k) + (IF k.pc \in {"create", "status"} THEN 1 ELSE 0)

AloneOperation(k) ==
  IF k.args.video_url = {"https://vid"} THEN "video_edit" ELSE "video_generation"

\* the result of the call run alone
AloneResult(k) ==
  IF k.bad # {}
  THEN FailureEnvelope(<<"xAI API error (">> \o StatusText(Val(k.bad).status)
                       \o <<"): ", Val(k.bad).text>>)
  ELSE IF k.args.wait_for_completion = {FALSE}
  THEN [isError |-> FALSE,
        text |-> [success |-> TRUE, status |-> "pending", request_id |-> k.jobId,
                  operation |-> AloneOperation(k)]]
  ELSE IF k.last = {}
  THEN FailureEnvelope(<<"Video generation timed out">>)
  ELSE IF Val(k.last).status = {"failed"}
  THEN [isError |-> FALSE,
        text |-> [success |-> FALSE, status |-> "failed",
                  error |-> <<Val(Val(k.last).error)>>, request_id |-> k.jobId]]
  ELSE [isError |-> FALSE,
        text |-> [success |-> TRUE, status |-> "completed",
                  video_url |-> Val(k.last).url, duration |-> Val(k.last).duration,
                  request_id |-> k.jobId, operation |-> AloneOperation(k)]]

\* C17: with two calls in flight at once, each call issues the requests and
\* returns the result it would alone against the same answers, polls only
\* its own job, and a step of one call leaves the other call's state as it
\* was; the shared client is written once and only read afterwards.
C17_ConcurrentCallsIndependent ==
  /\ [](\A c \in Slots :
          LET k == call[c] IN
          ToolCall(k) =>
            /\ k.http = AloneRequests(k)
            /\ k.polledIds \subseteq k.jobId
            /\ k.pc = "done" => k.results = <<AloneResult(k)>>
            /\ k.nonTerm <= 60
            /\ (k.pc = "done" /\ k.last = {} /\ k.bad = {}
                  /\ k.args.wait_for_completion # {FALSE}) => k.nonTerm = 60)
  /\ [][/\ \A c, d \in Slots :
             (c # d /\ call'[c] # call[c]) => call'[d] = call[d]
        /\ clientInstance # {} => clientInstance' = clientInstance]_vars

\* the first call is still waiting between polls while the second, started
\* after it, has polled its own job twice and returned its result
C17_Witness ==
  /\ call[1].pc = "sleep" /\ call[1].polls = 3 /\ call[1].jobId = {"video-123"}
  /\ call[2].pc = "done" /\ call[2].polls = 2 /\ call[2].jobId = {"video-456"}
  /\ call[2].polledIds = {"video-456"}
  /\ call[2].results = <<AloneResult(call[2])>>
  /\ call[2].last = {StatusBody({"completed"}, {"https://v.mp4"}, {5}, {})}
  /\ Result(call[2]).text.success
  /\ Result(call[2]).text.video_url = {"https://v.mp4"}
  /\ Result(call[2]).text.request_id = {"video-456"}

\* C21: a wait happens only between two consecutive status polls: none
\* before the first poll and none after the last poll of a run, whether the
\* run ends on a terminal response or on the timeout error.
C21_WaitsOnlyBetweenPolls ==
  \A c \in Slots :
    LET k == call[c] IN
    Polling(k) =>
      /\ k.polls = 0 => k.waits = 0
      /\ k.pc = "status" => k.waits = k.polls - 1
      /\ (k.pc = "done" /\ k.polls > 0) => k.waits = k.polls - 1

\* C22: the request to /videos/edits carries model, prompt, video_url,
\* aspect_ratio and resolution and nothing else, whatever duration or
\* image_url the caller gave; the request to /videos/generations carries the
\* caller's duration and image_url unchanged and no video_url.
C22_FieldsByBranch ==
  \A c \in Slots :
    LET k == call[c] IN
    (ValidVideoCall(k) /\ Len(k.sent) = 1) =>
      LET body == k.sent[1].body IN
      /\ k.sent[1].endpoint = "/videos/edits" =>
           /\ DOMAIN body = {"model", "prompt", "video_url", "aspect_ratio", "resolution"}
           /\ body.video_url = k.args.video_url
           /\ body.prompt = Val(k.args.prompt)
      /\ k.sent[1].endpoint = "/videos/generations" =>
           /\ DOMAIN body = {"model", "prompt", "image_url", "duration",
                             "aspect_ratio", "resolution"}
           /\ body.duration = k.args.duration
           /\ body.image_url = k.args.image_url
           /\ body.prompt = Val(k.args.prompt)

\* an edit call that also gives a duration and an image_url
C22_Witness ==
  \E c \in Slots :
    /\ ValidVideoCall(call[c]) /\ Len(call[c].sent) = 1
    /\ call[c].args.video_url = {"https://vid"}
    /\ call[c].args.duration = {5} /\ call[c].args.image_url = {"https://img"}
    /\ call[c].sent[1].endpoint = "/videos/edits"
    /\ DOMAIN call[c].sent[1].body =
         {"model", "prompt", "video_url", "aspect_ratio", "resolution"}

\* a generate_image call that has returned the images the upstream sent
ImagesReturned(k) ==
  ToolCall(k) /\ k.name = "generate_image" /\ k.pc = "done" /\ k.got # {}

\* the first n characters of a text
FirstChars(t, n) == [j \in 1..(IF Len(t) < n THEN Len(t) ELSE n) |-> t[j]]

\* C23: with response format b64_json every image of the result is the
\* first 100 characters at most of its encoded payload followed by "...",
\* and the envelope has a note saying the payload is cut; with the URL
\* format nothing is cut and there is no note.  In both formats count is
\* the number of images the upstream returned and the images carry the
\* indices 1..count in the upstream's order.
C23_InlinePayloadTruncated ==
  \A c \in Slots :
    LET k == call[c] IN
    ImagesReturned(k) =>
      LET data == Val(k.got).data
          text == Result(k).text
      IN /\ text.success /\ text.count = Len(data)
         /\ DOMAIN text.images = 1..Len(data)
         /\ \A j \in 1..Len(data) : text.images[j].index = j
         /\ k.args.response_format = {"b64_json"} =>
              /\ "note" \in DOMAIN text
              /\ \A j \in 1..Len(data) :
                   text.images[j].base64 =
                     (IF data[j].b64_json = {} THEN <<>>
                      ELSE FirstChars(Val(data[j].b64_json), 100)) \o <<"...">>
         /\ k.args.response_format # {"b64_json"} =>
              /\ "note" \notin DOMAIN text
              /\ \A j \in 1..Len(data) :
                   /\ text.images[j].url = data[j].url
                   /\ "base64" \notin DOMAIN text.images[j]

\* two payloads, of 101 and of 3 characters: the first is cut to 100
C23_Witness ==
  \E c \in Slots :
    /\ ImagesReturned(call[c]) /\ call[c].args.response_format = {"b64_json"}
    /\ Len(Val(call[c].got).data) = 2
    /\ Len(Val(Val(call[c].got).data[1].b64_json)) = 101
    /\ Result(call[c]).text.count = 2
    /\ Len(Result(call[c]).text.images[1].base64) = 101
    /\ Len(Result(call[c]).text.images[2].base64) = 4

\* C24: in every result the dispatcher returns, isError is set exactly when
\* the envelope's success field is false.
C24_FlagIffNotSuccess ==
  \A c \in Slots :
    LET k == call[c] IN
    (ToolCall(k) /\ k.pc = "done") =>
      \A j \in 1..Len(k.results) :
        k.results[j].isError <=> ~k.results[j].text.success

\* C25: every request live_search sends upstream carries at least one
\* search tool, for every input that passes validation, an empty sources
\* array included.
C25_AtLeastOneSearchTool ==
  \A c \in Slots :
    LET k == call[c] IN
    (SearchCall(k) /\ Len(k.sent) > 0) =>
      \A j \in 1..Len(k.sent) :
        /\ Len(k.sent[j].body.tools) >= 1
        /\ \A t \in 1..Len(k.sent[j].body.tools) :
             k.sent[j].body.tools[t].type \in {"web_search", "x_search"}

\* C26: the explicit status is tested before the url: a "failed" response
\* is returned as failed with its fields as they came, also when it carries
\* a url; and every value the loop returns has status "completed" or
\* "failed".
C26_StatusBeforeUrl ==
  \A c \in Slots :
    LET k == call[c] IN
    (Polling(k) /\ k.pc = "done" /\ ~Val(k.outcome).threw) =>
      /\ k.last # {}
      /\ k.kind = "client" =>
           /\ Val(k.outcome).value.status \in {{"completed"}, {"failed"}}
           /\ Val(k.last).status = {"failed"} => Val(k.outcome).value = Val(k.last)
           /\ Val(k.last).status = {"completed"} => Val(k.outcome).value = Val(k.last)
      /\ k.kind = "tool" =>
           /\ Result(k).text.status \in {"completed", "failed"}
           /\ Val(k.last).status = {"failed"} <=> Result(k).text.status = "failed"

\* a "failed" response that carries a url comes back as it is
C26_Witness ==
  \E c \in Slots :
    /\ call[c].kind = "client" /\ call[c].name = "pollVideoCompletion"
    /\ call[c].pc = "done" /\ call[c].polls = 2
    /\ call[c].last =
         {StatusBody({"failed"}, {"https://v.mp4"}, {}, {"Content policy violation"})}
    /\ Val(call[c].outcome).value =
         StatusBody({"failed"}, {"https://v.mp4"}, {}, {"Content policy violation"})

\* the error text of the failure the call saw
SeenFailure(k) ==
  IF k.bad # {}
  THEN <<"xAI API error (">> \o StatusText(Val(k.bad).status)
       \o <<"): ", Val(k.bad).text>>
  ELSE <<Val(k.net).text>>

\* C27: when a status poll fails (non-2xx answer or network failure),
\* polling stops on that attempt: no wait and no poll follows, and the
\* upstream error, not the timeout error, propagates; the dispatcher returns
\* it as a success:false result.
C27_PollFailureStopsPolling ==
  \A c \in Slots :
    LET k == call[c] IN
    (Polling(k) /\ k.polls > 0 /\ (k.bad # {} \/ k.net # {})) =>
      /\ k.pc = "done"
      /\ Cardinality(k.bad) + Cardinality(k.net) = 1
      /\ \A f \in k.bad \cup k.net : k.http = f.http
      /\ k.waits = k.polls - 1
      /\ Val(k.outcome).threw
      /\ Val(k.outcome).msg = SeenFailure(k)
      /\ Val(k.outcome).msg # <<"Video generation timed out">>
      /\ k.kind = "tool" => k.results = <<FailureEnvelope(SeenFailure(k))>>

\* the third poll of a generate_video call meets a network failure
C27_Witness ==
  \E c \in Slots :
    /\ ToolCall(call[c]) /\ call[c].name = "generate_video" /\ call[c].pc = "done"
    /\ call[c].polls = 3 /\ call[c].waits = 2 /\ call[c].http = 4
    /\ call[c].net = {[text |-> "Network error", http |-> 4]}
    /\ call[c].results = <<FailureEnvelope(<<"Network error">>)>>

\* C28: status polls are issued only after the job-creation request has
\* succeeded: with a failed creation there is no poll; every poll names the
\* request_id the creation returned, and the request_id of the returned
\* envelope is that id.
C28_PollsFollowCreation ==
  \A c \in Slots :
    LET k == call[c] IN
    ValidVideoCall(k) =>
      /\ k.polls > 0 => k.jobId # {}
      /\ k.polledIds \subseteq k.jobId
      /\ k.polls > 0 => k.polledIds = k.jobId
      /\ (k.jobId = {} /\ k.pc # "create") =>
           k.pc = "done" /\ k.polls = 0 /\ ~Result(k).text.success
      /\ (k.pc = "done" /\ k.jobId # {} /\ ~Val(k.outcome).threw) =>
           Result(k).text.request_id = k.jobId

C28_Witness ==
  \E c \in Slots :
    /\ ValidVideoCall(call[c]) /\ call[c].pc = "done"
    /\ call[c].jobId = {"video-456"} /\ call[c].polls = 2
    /\ call[c].polledIds = {"video-456"}
    /\ call[c].last # {}
    /\ Result(call[c]).text.request_id = {"video-456"}

\* the names of a listing
Listed(k) == {Val(k.outcome).value.tools[j] : j \in 1..Len(Val(k.outcome).value.tools)}

\* C29: the names the tool listing returns are exactly the names the
\* dispatcher routes to a handler: they are pairwise distinct, a call of a
\* listed name never ends in "Unknown tool", a call of any other name always
\* does, and every listing returns the same names.
C29_ListingMatchesRouting ==
  /\ \A c \in Slots :
       LET k == call[c] IN
       (k.kind = "list" /\ k.pc = "done") =>
         /\ ~Val(k.outcome).threw
         /\ Listed(k) = Registered
         /\ Len(Val(k.outcome).value.tools) = Cardinality(Registered)
         /\ \A d \in Slots :
              (call[d].kind = "list" /\ call[d].pc = "done") =>
                Val(call[d].outcome).value.tools = Val(k.outcome).value.tools
  /\ \A c \in Slots :
       LET k == call[c] IN
       (ToolCall(k) /\ k.pc = "done") =>
         (k.name \in Registered <=>
            k.results # <<FailureEnvelope(UnknownToolMsg(k.name))>>)

C29_Witness ==
  \E c \in Slots :
    /\ call[c].kind = "list" /\ call[c].pc = "done"
    /\ Len(Val(call[c].outcome).value.tools) = 5
    /\ "generate_video" \in Listed(call[c])

\* C30: for every finite maxAttempts >= 0 and an upstream that answers every
\* status request, pollVideoCompletion eventually returns or fails; with
\* maxAttempts = 0 it fails with the timeout error without any poll.
C30_PollingEnds ==
  /\ [](\A c \in Slots :
          (Polling(call[c]) /\ call[c].max = 0) =>
            /\ call[c].pc = "done"
            /\ call[c].polls = 0 /\ call[c].http = 0 /\ call[c].waits = 0
            /\ call[c].outcome = {Thrown(<<"Video generation timed out">>)})
  /\ \A c \in Slots :
       (Polling(call[c]) /\ call[c].pc # "done") ~> (call[c].pc = "done")

\* a call with maxAttempts 2 whose polls were all answered "pending" has
\* ended after its second wait
C30_Witness ==
  \E c \in Slots :
    /\ Polling(call[c]) /\ call[c].max = 2 /\ call[c].pc = "done"
    /\ call[c].polls = 2 /\ call[c].nonTerm = 2
    /\ call[c].outcome = {Thrown(<<"Video generation timed out">>)}

====
